---- MODULE Spec2Model ----
(***************************************************************************)
(* Rolling-window recorder: the encoded video and audio buffers of         *)
(* ffmpeg_encoder.rs (FfmpegEncoder), fed and exported by the event loop   *)
(* of main.rs.                                                             *)
(*                                                                         *)
(* Time is counted in ticks.  The source counts microseconds and uses      *)
(* 1_000_000 per second; the model keeps every formula of the source and   *)
(* only makes the second a handful of ticks long (MicrosPerSecond), so     *)
(* that a window of a few seconds is crossed by a few frames.              *)
(***************************************************************************)
EXTENDS Integers, Sequences, FiniteSets, TLC

\* ------------------------------------------------------------------ bounds
MicrosPerSecond == 2    \* ticks per second (1_000_000 in the source)
MaxSeconds == 1         \* config.max_seconds ranges over 1..MaxSeconds
MaxClock == 5           \* last tick at which a raw video frame is stamped
MaxStep == 2            \* largest gap between two consecutive video stamps
MaxLen == 4             \* frames kept in the video buffer
MaxAudioLen == 3        \* frames kept in the audio buffer
MaxSamples == 4         \* f32 samples in one raw audio delivery
MaxAudioClock == 1      \* last tick at which a raw audio delivery is stamped
MaxPkts == 2            \* packets the audio encoder returns for one frame
FrameSize == 2          \* audio_encoder.frame_size()
MaxCadencePushes == 150 \* frames pushed in a regular-cadence run
RawChanCap == 1         \* capacity of a raw channel (10 in the source)
MaxBurst == 2           \* save triggers counted while one save is running
MaxNow == 3             \* last tick the capture threads read
MaxPipeSamples == 2     \* f32 samples in one raw audio delivery on the channel
MaxAudioSent == 1       \* sends of the audio callback that find room, in one run
MaxParked == 1          \* sends of the audio callback that find the channel full, in one run

\* ------------------------------------------------------- program constants
Gop == 30               \* encoder_ctx.set_gop(30)
NChannels == 2          \* ChannelLayout::STEREO

\* Variant: a save channel that holds a whole burst of triggers.
SaveChanWide == MaxBurst

\* let (save_tx, mut save_rx) = mpsc::channel(1);
SaveChanCap == 1

\* Window lengths (seconds) tried by the regular-cadence runs: shorter than,
\* about as long as, and several times longer than one GOP.
CadenceSeconds == {0, 1, 10, 25, 40}

NoPass == [ran |-> FALSE]
NoFile == [created |-> FALSE]

VARIABLES
    video_buffer,      \* VecDeque<VideoFrameData>: <<[time, key]>>; key is the
                       \* keyframe flag of the packet whose bytes the frame holds
    keyframe_indexes,  \* Vec<usize>: 0-based positions in video_buffer
    audio_buffer,      \* VecDeque<AudioFrameData>: <<[time]>>
    max_time,          \* buffer_seconds * 1_000_000
    enc_frames,        \* video encoder: packets since (and with) the last
                       \* keyframe; 0 for a freshly opened encoder
    clock,             \* stamp of the last raw video frame delivered
    cad_step,          \* stamp spacing of a regular-cadence run (0: none)
    pushes,            \* frames pushed so far by a regular-cadence run
    running,           \* the event loop of main is still running
    after_evict,       \* video buffer and indexes as the eviction loop of the
                       \* last process_frame left them, before its push_back,
                       \* the number of frames that loop removed and what each
                       \* of its passes removed
    keys_pushed,       \* a keyframe has been pushed at some point
    save_status,       \* outcome of the handler that ran last, if a save
    snap,              \* the buffers the last save handed to save_buffer
    out,               \* the output file of the last save
    video_q,           \* video raw channel: stamps of the frames in flight
    audio_q,           \* audio raw channel: <<[n, t, ready]>>, n samples stamped
                       \* t; ready is the flag the callback read
    save_q,            \* save channel: number of triggers in flight
    video_ready,       \* AtomicBool shared by the capture threads
    now,               \* start_time.elapsed() as the capture threads read it
    pc,                \* the branch of select! the event loop is in
    video_lock,        \* holder of video_encoder's Mutex
    audio_lock,        \* holder of audio_encoder's Mutex
    lock_log,          \* locks taken by the running branch, in order
    last_result,       \* the error process() returned in the last audio branch
    delivery,          \* what the last audio callback did with its buffer
    burst,             \* triggers sent since the running save began
    audio_sent,        \* sends of the audio callback that found room
    audio_parked,      \* sends of the audio callback that found the channel full
    audio_wait         \* the sample a parked blocking_send holds, if any

\* the event loop's own state
core == <<video_buffer, keyframe_indexes, audio_buffer, max_time, enc_frames,
          clock, cad_step, pushes, running, after_evict, keys_pushed,
          save_status, snap, out>>

\* the capture threads, the channels and the locks
pipe == <<video_q, audio_q, save_q, video_ready, now, pc, video_lock,
          audio_lock, lock_log, last_result, delivery, burst, audio_sent,
          audio_parked, audio_wait>>

vars == <<core, pipe>>

\* ----------------------------------------------------------------- helpers
Last(s) == s[Len(s)]
Span(buf) == IF Len(buf) = 0 THEN 0 ELSE Last(buf).time - buf[1].time
\* VecDeque index i (0-based) of the source is position i + 1 here
At(buf, i) == buf[i + 1]

\* ------------------------------------------------- FfmpegEncoder::process_frame
\* Variant: the retain after a drain keeps only the entries above 1.
DrainRetainAboveOne(buf, kidx) ==
    LET n == kidx[1]
        shifted == [i \in 1..Len(kidx) |-> kidx[i] - n]
    IN  [buffer  |-> SubSeq(buf, n + 1, Len(buf)),
         indexes |-> SelectSeq(shifted, LAMBDA x : x > 1)]

\* One pass of `while let Some(oldest) = front()`: drain(0..keyframe_indexes[0]),
\* subtract drained.len() from every index, retain the non-zero ones.
DrainToFirstKeyframe(buf, kidx) ==
    LET n == kidx[1]
        shifted == [i \in 1..Len(kidx) |-> kidx[i] - n]
    IN  [buffer  |-> SubSeq(buf, n + 1, Len(buf)),
         indexes |-> SelectSeq(shifted, LAMBDA x : x # 0)]

\* What one pass of the loop removed: frames drained, index entries dropped.
Removed(buf, kidx, d) ==
    [frames |-> Len(buf) - Len(d.buffer), entries |-> Len(kidx) - Len(d.indexes)]

\* The loop; steps lists what each pass that did not break removed.
RECURSIVE EvictLoop(_, _, _)
EvictLoop(buf, kidx, maxt) ==
    IF Len(buf) = 0
    THEN [buffer |-> buf, indexes |-> kidx, steps |-> <<>>]
    ELSE IF Last(buf).time - buf[1].time >= maxt /\ Len(kidx) > 0
         THEN LET d == DrainToFirstKeyframe(buf, kidx)
                  r == EvictLoop(d.buffer, d.indexes, maxt)
              IN  [buffer |-> r.buffer, indexes |-> r.indexes,
                   steps |-> <<Removed(buf, kidx, d)>> \o r.steps]
         ELSE [buffer |-> buf, indexes |-> kidx, steps |-> <<>>]

\* Variant: the drain takes the boundary keyframe with it.
EvictPastKeyframe(buf, kidx, maxt) ==
    IF Len(buf) > 0 /\ Last(buf).time - buf[1].time >= maxt /\ Len(kidx) > 0
    THEN LET n == kidx[1] + 1
             shifted == [i \in 1..Len(kidx) |-> kidx[i] - n]
             d == [buffer  |-> SubSeq(buf, n + 1, Len(buf)),
                   indexes |-> SelectSeq(shifted, LAMBDA x : x > 0)]
         IN  [buffer |-> d.buffer, indexes |-> d.indexes,
              steps |-> <<Removed(buf, kidx, d)>>]
    ELSE [buffer |-> buf, indexes |-> kidx, steps |-> <<>>]

\* Variant: the loop demands a second recorded boundary before it drains.
RECURSIVE EvictOffByOne(_, _, _)
EvictOffByOne(buf, kidx, maxt) ==
    IF Len(buf) = 0
    THEN [buffer |-> buf, indexes |-> kidx, steps |-> <<>>]
    ELSE IF Last(buf).time - buf[1].time >= maxt /\ Len(kidx) > 1
         THEN LET d == DrainToFirstKeyframe(buf, kidx)
                  r == EvictOffByOne(d.buffer, d.indexes, maxt)
              IN  [buffer |-> r.buffer, indexes |-> r.indexes,
                   steps |-> <<Removed(buf, kidx, d)>> \o r.steps]
         ELSE [buffer |-> buf, indexes |-> kidx, steps |-> <<>>]

\* Variant: the oldest frames go one by one while the span is at or over the
\* window, keyframe boundary or not.
RECURSIVE EvictByTime(_, _, _)
EvictByTime(buf, kidx, maxt) ==
    IF Len(buf) > 0 /\ Last(buf).time - buf[1].time >= maxt
    THEN LET d == [buffer  |-> Tail(buf),
                   indexes |-> SelectSeq([i \in 1..Len(kidx) |-> kidx[i] - 1],
                                         LAMBDA x : x > 0)]
             r == EvictByTime(d.buffer, d.indexes, maxt)
         IN  [buffer |-> r.buffer, indexes |-> r.indexes,
              steps |-> <<Removed(buf, kidx, d)>> \o r.steps]
    ELSE [buffer |-> buf, indexes |-> kidx, steps |-> <<>>]

\* The eviction pass of one process_frame call that received a packet.
Evict(buf, kidx, maxt) == EvictLoop(buf, kidx, maxt)

\* Variant: the recorded index is the length after the push.
PushFrameLen(buf, kidx, frame) ==
    LET nb == Append(buf, frame)
    IN  [buffer  |-> nb,
         indexes |-> IF frame.key /\ Len(nb) > 1
                     THEN Append(kidx, Len(nb))
                     ELSE kidx]

\* push_back(frame_data) and the keyframe bookkeeping that follows it.
PushFrame(buf, kidx, frame) ==
    LET nb == Append(buf, frame)
    IN  [buffer  |-> nb,
         indexes |-> IF frame.key /\ Len(nb) > 1
                     THEN Append(kidx, Len(nb) - 1)
                     ELSE kidx]

\* The h264 encoder opened by create_nvenc_encoder: the first packet of a
\* fresh encoder is a keyframe, and at most Gop packets separate keyframes.
KeyForced(n) == n = 0 \/ n >= Gop
KeyChoices(n) == IF KeyForced(n) THEN {TRUE} ELSE BOOLEAN
NextEncFrames(n, key) == IF key THEN 1 ELSE n + 1

\* process_frame(frame, time_micro) when receive_packet yields a packet.
ProcessFrame(buf, kidx, maxt, time_micro, is_key) ==
    LET ev == Evict(buf, kidx, maxt)
        pu == PushFrame(ev.buffer, ev.indexes, [time |-> time_micro, key |-> is_key])
    IN  [buffer |-> pu.buffer, indexes |-> pu.indexes, evicted |-> ev]

\* ------------------------------------------------- FfmpegEncoder::process_audio
Repeat(x, n) == [i \in 1..n |-> x]

\* Body of `for f in 0..num_frames`, frames f..num_frames (1-based here).
\* pkts[f] is the number of packets receive_packet returns after frame f was
\* sent; fail_at is the frame whose send_frame fails (0: none does).
RECURSIVE AudioFrames(_, _, _, _, _, _)
AudioFrames(abuf, f, num_frames, clock_pts, pkts, fail_at) ==
    IF f > num_frames
    THEN [buffer |-> abuf, status |-> "ok"]
    ELSE LET pts == IF Len(abuf) > 0
                    THEN Last(abuf).time + FrameSize
                    ELSE clock_pts
         IN  IF fail_at = f
             THEN [buffer |-> abuf, status |-> "err"]
             ELSE AudioFrames(abuf \o Repeat([time |-> pts], pkts[f]),
                              f + 1, num_frames, clock_pts, pkts, fail_at)

\* Variant: the sample count is not checked against the channel count.
ProcessAudioUnchecked(abuf, total_samples, time_micro, pkts, fail_at) ==
    AudioFrames(abuf, 1, total_samples \div FrameSize,
                (time_micro * total_samples) \div MicrosPerSecond, pkts, fail_at)

ProcessAudio(abuf, total_samples, time_micro, pkts, fail_at) ==
    IF total_samples % NChannels # 0
    THEN [buffer |-> abuf, status |-> "InvalidData"]
    ELSE LET samples_per_channel == total_samples
             num_frames == samples_per_channel \div FrameSize
             clock_pts == (time_micro * total_samples) \div MicrosPerSecond
         IN  AudioFrames(abuf, 1, num_frames, clock_pts, pkts, fail_at)

\* ---------------------------------------- VideoBuffer / AudioBuffer accessors
None == [some |-> FALSE]
Some(x) == [some |-> TRUE, val |-> x]

\* get_last_gop_start(): dts of the last keyframe boundary recorded.
GetLastGopStart(buf, kidx) ==
    IF Len(kidx) = 0 THEN None ELSE Some(At(buf, Last(kidx)).time)

\* get_frames().get(dts)
GetFrame(buf, dts) ==
    LET hits == SelectSeq(buf, LAMBDA f : f.time = dts)
    IN  IF Len(hits) = 0 THEN None ELSE Some(hits[1])

\* oldest_pts()
OldestPts(buf) == IF Len(buf) = 0 THEN None ELSE Some(buf[1].time)

\* get_frames().range(..=dts): the frames keyed up to dts, in key order
RangeToInclusive(buf, dts) == SelectSeq(buf, LAMBDA f : f.time <= dts)

\* ------------------------------------------------------- save_buffer (main.rs)
\* The library calls of the save path that can fail: none of them, drain(),
\* format::output(), codec() of either encoder, write_header(), a video or an
\* audio write_interleaved(), write_trailer(), reset_encoder().
FaultKinds == <<"none", "drain", "open", "vcodec", "acodec", "header", "vwrite",
                "awrite", "trailer", "reset">>

\* Variant: every buffered frame is written, as FfmpegEncoder::save_buffer does.
RangeWholeBuffer(buf, dts) == buf

\* The video frames `for (dts, frame_data) in ...range(..=last_keyframe)` visits.
VideoSlice(buf, last_keyframe) == RangeToInclusive(buf, last_keyframe)

\* Variant: the buffer's own timestamp is written, as save_audio does.
RebaseFromZero(pts, first_pts_offset) == pts

\* pts_offset = frame_data.get_pts() - first_pts_offset
Rebase(pts, first_pts_offset) == pts - first_pts_offset

\* One video packet: pts_offset, dts_offset clamped at 0; time and key stand
\* for the copied bytes.
VideoPacketOut(frame, first_pts_offset) ==
    LET pts_offset == Rebase(frame.time, first_pts_offset)
        dts_offset == frame.time - first_pts_offset
    IN  [pts |-> pts_offset,
         dts |-> IF dts_offset < 0 THEN 0 ELSE dts_offset,
         time |-> frame.time, key |-> frame.key]

\* The audio frames the loop reaches before `if pts_in_micros > newest_video_pts
\* { break; }`.
RECURSIVE AudioSlice(_, _)
AudioSlice(abuf, newest_video_pts) ==
    IF Len(abuf) = 0 \/ abuf[1].time > newest_video_pts
    THEN <<>>
    ELSE <<abuf[1]>> \o AudioSlice(Tail(abuf), newest_video_pts)

AudioPacketOut(frame, oldest_frame_offset) ==
    [pts |-> frame.time - oldest_frame_offset, time |-> frame.time]

Take(s, n) == SubSeq(s, 1, IF n < Len(s) THEN n ELSE Len(s))

File(header, video, audio, trailer) ==
    [created |-> TRUE, header |-> header, video |-> video, audio |-> audio,
     trailer |-> trailer]

\* save_buffer(filename, video_buffer, video_encoder, audio_buffer, audio_encoder).
\* fault names the library call that fails (if it is reached); k is the packet
\* (1-based) at which a failing write_interleaved fails.
SaveBuffer(vbuf, kidx, abuf, fault, k) ==
    IF fault = "open" THEN [status |-> "err", file |-> NoFile]
    ELSE IF fault \in {"vcodec", "acodec"}
    THEN [status |-> "err", file |-> File(FALSE, <<>>, <<>>, FALSE)]
    ELSE IF fault = "header"
    THEN [status |-> "err", file |-> File(FALSE, <<>>, <<>>, FALSE)]
    ELSE
    LET last_keyframe == GetLastGopStart(vbuf, kidx) IN
    IF ~last_keyframe.some
    THEN [status |-> "err", file |-> File(TRUE, <<>>, <<>>, FALSE)]
    ELSE
    LET newest == GetFrame(vbuf, last_keyframe.val) IN
    IF ~newest.some
    THEN [status |-> "err", file |-> File(TRUE, <<>>, <<>>, FALSE)]
    ELSE
    LET newest_video_pts == newest.val.time
        first_pts_offset == OldestPts(vbuf)
    IN
    IF ~first_pts_offset.some
    THEN [status |-> "err", file |-> File(TRUE, <<>>, <<>>, FALSE)]
    ELSE
    LET slice == VideoSlice(vbuf, last_keyframe.val)
        vpk == [i \in 1..Len(slice) |-> VideoPacketOut(slice[i], first_pts_offset.val)]
    IN
    IF fault = "vwrite" /\ k <= Len(vpk)
    THEN [status |-> "panic", file |-> File(TRUE, Take(vpk, k - 1), <<>>, FALSE)]
    ELSE
    LET oldest_frame_offset == OldestPts(abuf) IN
    IF ~oldest_frame_offset.some
    THEN [status |-> "err", file |-> File(TRUE, vpk, <<>>, FALSE)]
    ELSE
    LET aslice == AudioSlice(abuf, newest_video_pts)
        apk == [i \in 1..Len(aslice) |-> AudioPacketOut(aslice[i], oldest_frame_offset.val)]
    IN
    IF fault = "awrite" /\ k <= Len(apk)
    THEN [status |-> "panic", file |-> File(TRUE, vpk, Take(apk, k - 1), FALSE)]
    ELSE IF fault = "trailer"
    THEN [status |-> "err", file |-> File(TRUE, vpk, apk, FALSE)]
    ELSE [status |-> "ok", file |-> File(TRUE, vpk, apk, TRUE)]

\* ------------------------------------------------------------- event loop
\* main before `loop`: empty channels, video_ready false, both Mutexes free.
PipeInit ==
    /\ video_q = <<>>
    /\ audio_q = <<>>
    /\ save_q = 0
    /\ video_ready = FALSE
    /\ now = 0
    /\ pc = "select"
    /\ video_lock = "free"
    /\ audio_lock = "free"
    /\ lock_log = <<>>
    /\ last_result = "none"
    /\ delivery = "none"
    /\ burst = 0
    /\ audio_sent = 0
    /\ audio_parked = 0
    /\ audio_wait = None

Init ==
    /\ video_buffer = <<>>
    /\ keyframe_indexes = <<>>
    /\ audio_buffer = <<>>
    /\ \E s \in 1..MaxSeconds : max_time = s * MicrosPerSecond
    /\ enc_frames = 0
    /\ clock = 0
    /\ cad_step = 0
    /\ pushes = 0
    /\ running = TRUE
    /\ after_evict = NoPass
    /\ keys_pushed = FALSE
    /\ save_status = "idle"
    /\ snap = NoPass
    /\ out = NoFile
    /\ PipeInit

\* Some((frame, time)) = video_receiver.recv() => process(&frame, time)?
\* with a packet received.
VideoPacket(t, is_key) ==
    LET r == ProcessFrame(video_buffer, keyframe_indexes, max_time, t, is_key)
    IN  /\ Len(r.buffer) <= MaxLen
        /\ video_buffer' = r.buffer
        /\ keyframe_indexes' = r.indexes
        /\ after_evict' = [ran |-> TRUE, buffer |-> r.evicted.buffer,
                           indexes |-> r.evicted.indexes,
                           drained |-> Len(video_buffer) - Len(r.evicted.buffer),
                           steps |-> r.evicted.steps]
        /\ enc_frames' = NextEncFrames(enc_frames, is_key)
        /\ keys_pushed' = (keys_pushed \/ is_key)
        /\ UNCHANGED pushes
        /\ clock' = t

\* The video branch for a raw frame stamped t.
VideoHandler(t) ==
    /\ \E got_packet \in BOOLEAN, send_ok \in BOOLEAN :
            /\ save_status' = "idle" /\ snap' = NoPass /\ out' = NoFile
            /\ IF ~send_ok
               THEN \* scaler or send_frame error: `?` leaves main
                    /\ running' = FALSE
                    /\ clock' = t
                    /\ after_evict' = NoPass
                    /\ UNCHANGED <<video_buffer, keyframe_indexes, enc_frames,
                                   keys_pushed, pushes>>
               ELSE IF ~got_packet
               THEN /\ clock' = t
                    /\ after_evict' = NoPass
                    /\ UNCHANGED <<video_buffer, keyframe_indexes, enc_frames,
                                   keys_pushed, pushes, running>>
               ELSE /\ \E k \in KeyChoices(enc_frames) : VideoPacket(t, k)
                    /\ UNCHANGED running
    /\ UNCHANGED <<audio_buffer, max_time, cad_step>>

\* The video branch, with the raw frame the channel hands over drawn directly:
\* stamps increase from frame to frame.
OnVideoRaw ==
    /\ running
    /\ \E dt \in 1..MaxStep :
        /\ clock + dt <= MaxClock
        /\ VideoHandler(clock + dt)
    /\ UNCHANGED pipe

\* What process(&samples, time) can return and leave in the audio buffer, over
\* every raw delivery (n samples stamped t) and every behaviour of the encoder.
AudioOutcomesFor(abuf, n, t) ==
    { ProcessAudio(abuf, n, t, pkts, fail_at) :
        pkts \in [1..(n \div FrameSize) -> 0..MaxPkts],
        fail_at \in 0..(n \div FrameSize) }

AudioOutcomes(abuf) ==
    UNION { AudioOutcomesFor(abuf, n, t) : n \in 0..MaxSamples, t \in 0..MaxAudioClock }

\* The audio branch when process(&samples, time) returns r: `?` leaves main on
\* every error.
AudioHandler(r) ==
    /\ Len(r.buffer) <= MaxAudioLen
    /\ audio_buffer' = r.buffer
    /\ running' = (r.status = "ok")
    /\ save_status' = "idle" /\ snap' = NoPass /\ out' = NoFile
    /\ after_evict' = NoPass
    /\ UNCHANGED <<video_buffer, keyframe_indexes, max_time, enc_frames, clock,
                   cad_step, pushes, keys_pushed>>

\* Some((samples, time)) = audio_receiver.recv() => process(&samples, time)?
OnAudioRaw ==
    /\ running
    /\ \E r \in AudioOutcomes(audio_buffer) : AudioHandler(r)
    /\ UNCHANGED pipe

\* reset_encoder() of both units: buffers and keyframe indexes cleared, encoders
\* opened afresh.
ResetEncoders == [video |-> <<>>, indexes |-> <<>>, audio |-> <<>>, enc_frames |-> 0]

\* _ = save_rx.recv() => { lock both; drain()?; drain()?; save_buffer(..)?;
\*                         reset_encoder()?; reset_encoder()?; }
\* Every `?` returns the error from main and every expect() panics: the loop
\* ends either way.  drain() only flushes: the encoders are taken to hold no
\* packet when the trigger is handled.
SaveHandler ==
    /\ \E fi \in 1..Len(FaultKinds) :
       \E k \in (IF FaultKinds[fi] \in {"vwrite", "awrite"} THEN 1..MaxLen ELSE {1}) :
        LET fault == FaultKinds[fi]
            r == IF fault = "drain"
                 THEN [status |-> "err", file |-> NoFile]
                 ELSE SaveBuffer(video_buffer, keyframe_indexes, audio_buffer, fault, k)
            done == r.status = "ok" /\ fault # "reset"
        IN  /\ snap' = [ran |-> TRUE, video |-> video_buffer,
                        indexes |-> keyframe_indexes, audio |-> audio_buffer]
            /\ out' = r.file
            /\ save_status' = IF r.status = "ok" /\ fault = "reset"
                              THEN "reset_err" ELSE r.status
            /\ running' = done
            /\ IF done
               THEN /\ video_buffer' = ResetEncoders.video
                    /\ keyframe_indexes' = ResetEncoders.indexes
                    /\ audio_buffer' = ResetEncoders.audio
                    /\ enc_frames' = ResetEncoders.enc_frames
               ELSE UNCHANGED <<video_buffer, keyframe_indexes, audio_buffer,
                               enc_frames>>
    /\ after_evict' = NoPass
    /\ UNCHANGED <<max_time, clock, cad_step, pushes, keys_pushed>>

\* The save branch, with the trigger drawn directly.
OnSaveTrigger ==
    /\ running
    /\ SaveHandler
    /\ UNCHANGED pipe

Next == OnVideoRaw \/ OnAudioRaw \/ OnSaveTrigger

Spec == Init /\ [][Next]_vars

\* ------------------------------------------------- regular keyframe cadence
InitCadence ==
    /\ video_buffer = <<>>
    /\ keyframe_indexes = <<>>
    /\ audio_buffer = <<>>
    /\ \E s \in CadenceSeconds : max_time = s * MicrosPerSecond
    /\ enc_frames = 0
    /\ clock = 0
    /\ \E d \in 1..MaxStep : cad_step = d
    /\ pushes = 0
    /\ running = TRUE
    /\ after_evict = NoPass
    /\ keys_pushed = FALSE
    /\ save_status = "idle"
    /\ snap = NoPass
    /\ out = NoFile
    /\ PipeInit

\* Every raw frame yields its packet, stamps are cad_step apart and the encoder
\* emits a keyframe exactly every Gop packets.
CadencePush ==
    /\ running
    /\ pushes < MaxCadencePushes
    /\ LET t == clock + cad_step
           k == KeyForced(enc_frames)
           r == ProcessFrame(video_buffer, keyframe_indexes, max_time, t, k)
       IN  /\ video_buffer' = r.buffer
           /\ keyframe_indexes' = r.indexes
           /\ after_evict' = [ran |-> TRUE, buffer |-> r.evicted.buffer,
                              indexes |-> r.evicted.indexes,
                              drained |-> Len(video_buffer) - Len(r.evicted.buffer),
                              steps |-> r.evicted.steps]
           /\ enc_frames' = NextEncFrames(enc_frames, k)
           /\ keys_pushed' = (keys_pushed \/ k)
           /\ pushes' = pushes + 1
           /\ clock' = t
    /\ UNCHANGED <<audio_buffer, max_time, cad_step, running, save_status, snap, out>>
    /\ UNCHANGED pipe

NextCadence == CadencePush

SpecCadence == InitCadence /\ [][NextCadence]_vars

\* ------------------------------------------- capture threads and channels
\* The same three branches, fed by the capture threads through the raw channels
\* and by the trigger service through the save channel.  The save branch is two
\* steps: it receives the trigger and takes both locks, then runs to its end;
\* the capture threads and the trigger service run in between.  When main
\* returns or panics the process ends: its threads, channels, flag and locks
\* are gone, and what is left is the state main left.

\* state_changed of the video stream: video_ready.store(new == Streaming).
VideoStateChanged ==
    /\ running
    /\ video_ready' = ~video_ready
    /\ UNCHANGED <<core, video_q, audio_q, save_q, now, pc, video_lock,
                   audio_lock, lock_log, last_result, delivery, burst, audio_sent,
                   audio_parked, audio_wait>>

\* process callback of the video stream: a raw frame, stamped with the elapsed
\* time, is sent on the video channel while the stream is live.
VideoDeliver ==
    /\ running
    /\ video_ready
    /\ Len(video_q) < RawChanCap
    /\ \E dt \in 1..MaxStep :
        /\ now + dt <= MaxNow
        /\ now' = now + dt
        /\ video_q' = Append(video_q, now + dt)
    /\ UNCHANGED <<core, audio_q, save_q, video_ready, pc, video_lock,
                   audio_lock, lock_log, last_result, delivery, burst, audio_sent,
                   audio_parked, audio_wait>>

\* Variant: the callback forwards whatever the flag reads.
ForwardAlways(ready) == TRUE

\* if !video_ready.load(Acquire) { return; }
Forwards(ready) == ready

\* let time_us = if let Ok(elapsed) = start_time.elapsed() { .. } else { 0 };
TimeUs(elapsed_ok, elapsed) == IF elapsed_ok THEN elapsed ELSE 0

\* process_audio_channel.blocking_send((samples, time_us)): the sample is
\* queued when the channel has room, and the calling thread is parked with it
\* while the channel is full.
BlockingSend(q, sample) ==
    IF Len(q) < RawChanCap
    THEN [q |-> Append(q, sample), wait |-> None]
    ELSE [q |-> q, wait |-> Some(sample)]

\* process callback of the audio stream, for a dequeued buffer of n samples.
AudioDeliver ==
    /\ running
    /\ ~audio_wait.some
    /\ IF ~Forwards(video_ready)
       THEN /\ delivery' = "dropped"
            /\ UNCHANGED <<audio_q, audio_sent,
                   audio_parked, audio_wait>>
       ELSE /\ IF Len(audio_q) < RawChanCap
               THEN audio_sent < MaxAudioSent
               ELSE audio_parked < MaxParked
            /\ \E n \in 0..MaxPipeSamples, elapsed_ok \in BOOLEAN :
                LET s == BlockingSend(audio_q, [n |-> n, t |-> TimeUs(elapsed_ok, now),
                                                ready |-> video_ready])
                IN  /\ audio_q' = s.q
                    /\ audio_wait' = s.wait
                    /\ delivery' = IF s.wait.some THEN "blocked" ELSE "forwarded"
                    /\ audio_sent' = IF s.wait.some THEN audio_sent ELSE audio_sent + 1
                    /\ audio_parked' = IF s.wait.some THEN audio_parked + 1 ELSE audio_parked
    /\ UNCHANGED <<core, video_q, save_q, video_ready, now, pc, video_lock,
                   audio_lock, lock_log, last_result, burst>>

\* blocking_send returns: the event loop has taken a sample from the full
\* channel and the parked sample is queued.
AudioResume ==
    /\ running
    /\ audio_wait.some
    /\ Len(audio_q) < RawChanCap
    /\ audio_q' = Append(audio_q, audio_wait.val)
    /\ audio_wait' = None
    /\ delivery' = "forwarded"
    /\ UNCHANGED <<core, video_q, save_q, video_ready, now, pc, video_lock,
                   audio_lock, lock_log, last_result, burst, audio_sent,
                   audio_parked>>

\* The trigger service sends on the save channel; a trigger that finds the
\* channel full is not queued.
Trigger ==
    /\ running
    /\ pc = "save" => burst < MaxBurst
    /\ save_q' = IF save_q < SaveChanCap THEN save_q + 1 ELSE save_q
    /\ burst' = IF pc = "save" THEN burst + 1 ELSE burst
    /\ UNCHANGED <<core, video_q, audio_q, video_ready, now, pc, video_lock,
                   audio_lock, lock_log, last_result, delivery, audio_sent,
                   audio_parked, audio_wait>>

\* Variant: the audio lock is polled first.
JoinAudioFirst(who) ==
    [video |-> who, audio |-> who, log |-> <<"audio", "video">>]

\* tokio::join!(video_encoder.lock(), audio_encoder.lock()): the futures are
\* polled in the order written, and both locks are free.
JoinLocks(who) ==
    [video |-> who, audio |-> who, log |-> <<"video", "audio">>]

\* What is left of the threads, channels, flag and locks once main has ended.
Exited ==
    /\ video_q' = <<>>
    /\ audio_q' = <<>>
    /\ save_q' = 0
    /\ video_ready' = FALSE
    /\ pc' = "exited"
    /\ video_lock' = "free"
    /\ audio_lock' = "free"
    /\ lock_log' = <<>>
    /\ delivery' = "none"
    /\ burst' = 0
    /\ audio_sent' = 0
    /\ audio_parked' = 0
    /\ audio_wait' = None
    /\ UNCHANGED now

\* _ = save_rx.recv() => { let (video_lock, audio_lock) = join!(..); ..
RecvSave ==
    /\ running
    /\ pc = "select"
    /\ save_q > 0
    /\ video_lock = "free" /\ audio_lock = "free"
    /\ save_q' = save_q - 1
    /\ LET j == JoinLocks("save")
       IN  /\ video_lock' = j.video
           /\ audio_lock' = j.audio
           /\ lock_log' = j.log
    /\ pc' = "save"
    /\ burst' = 0
    /\ UNCHANGED <<core, video_q, audio_q, video_ready, now, last_result,
                   delivery, audio_sent,
                   audio_parked, audio_wait>>

\* .. drain()?; drain()?; save_buffer(..)?; reset_encoder()?; reset_encoder()?; }
\* The guards are dropped at the end of the branch.
RunSave ==
    /\ running
    /\ pc = "save"
    /\ video_lock = "save" /\ audio_lock = "save"
    /\ SaveHandler
    /\ last_result' = "none"
    /\ IF running'
       THEN /\ video_lock' = "free"
            /\ audio_lock' = "free"
            /\ lock_log' = <<>>
            /\ pc' = "select"
            /\ burst' = 0
            /\ UNCHANGED <<video_q, audio_q, save_q, video_ready, now, delivery,
                           audio_sent,
                   audio_parked, audio_wait>>
       ELSE Exited

\* Some((frame, time)) = video_receiver.recv() =>
\*     video_encoder.lock().await.process(&frame, time)?
RecvVideoRaw ==
    /\ running
    /\ pc = "select"
    /\ Len(video_q) > 0
    /\ video_lock = "free"
    /\ VideoHandler(Head(video_q))
    /\ last_result' = "none"
    /\ IF running'
       THEN /\ video_q' = Tail(video_q)
            /\ UNCHANGED <<audio_q, save_q, video_ready, now, pc, video_lock,
                           audio_lock, lock_log, delivery, burst, audio_sent,
                   audio_parked, audio_wait>>
       ELSE Exited

\* Some((samples, time)) = audio_receiver.recv() =>
\*     audio_encoder.lock().await.process(&samples, time)?
RecvAudioRaw ==
    /\ running
    /\ pc = "select"
    /\ Len(audio_q) > 0
    /\ audio_lock = "free"
    /\ \E r \in AudioOutcomesFor(audio_buffer, Head(audio_q).n, Head(audio_q).t) :
        /\ AudioHandler(r)
        /\ last_result' = IF r.status = "ok" THEN "none" ELSE r.status
    /\ IF running'
       THEN /\ audio_q' = Tail(audio_q)
            /\ UNCHANGED <<video_q, save_q, video_ready, now, pc, video_lock,
                           audio_lock, lock_log, delivery, burst, audio_sent,
                   audio_parked, audio_wait>>
       ELSE Exited

NextPipeline ==
    \/ VideoStateChanged
    \/ VideoDeliver
    \/ AudioDeliver
    \/ AudioResume
    \/ Trigger
    \/ RecvSave
    \/ RunSave
    \/ RecvVideoRaw
    \/ RecvAudioRaw

SpecPipeline == Init /\ [][NextPipeline]_vars

\* ------------------------------------------------- producers' time stamps
\* The ingestion path alone, with the video callback stamping its frames the
\* way the audio callback stamps its samples: the elapsed time since the shared
\* start instant, or 0 when elapsed() fails.
VideoDeliverFallback ==
    /\ running
    /\ video_ready
    /\ Len(video_q) < RawChanCap
    /\ \E dt \in 1..MaxStep, elapsed_ok \in BOOLEAN :
        /\ now + dt <= MaxNow
        /\ now' = now + dt
        /\ video_q' = Append(video_q, TimeUs(elapsed_ok, now + dt))
    /\ UNCHANGED <<core, audio_q, save_q, video_ready, pc, video_lock,
                   audio_lock, lock_log, last_result, delivery, burst, audio_sent,
                   audio_parked, audio_wait>>

NextStamps ==
    \/ VideoStateChanged
    \/ VideoDeliverFallback
    \/ AudioDeliver
    \/ AudioResume
    \/ RecvVideoRaw
    \/ RecvAudioRaw

SpecStamps == Init /\ [][NextStamps]_vars

\* ------------------------------------------------------------------ claims
IsPrefix(s, t) == Len(s) <= Len(t) /\ s = SubSeq(t, 1, Len(s))
FrontIsKeyOrShort(buf) == Len(buf) <= 1 \/ buf[1].key
ExportFailed == save_status \in {"err", "panic"}
ExportOk == save_status = "ok"
Written(pk) == [i \in 1..Len(pk) |-> [time |-> pk[i].time, key |-> pk[i].key]]

\* C1: once a keyframe has been pushed, the video buffer as the eviction pass
\* leaves it, and as the push that follows leaves it, has a keyframe at its
\* front or holds at most one frame.
C1_KeyframeInvariant ==
    keys_pushed =>
        /\ FrontIsKeyOrShort(video_buffer)
        /\ after_evict.ran => FrontIsKeyOrShort(after_evict.buffer)

\* C1 witness: an eviction pass removed a keyframe and a frame depending on it,
\* and the push left a buffer of several frames headed by a keyframe.
C1_Witness ==
    /\ keys_pushed
    /\ after_evict.ran
    /\ after_evict.drained >= 2
    /\ Len(video_buffer) >= 2
    /\ video_buffer[1].key

\* C2: when the eviction pass of a push ends, the span of the video buffer is at
\* most max_time, unless no keyframe boundary later than the oldest frame is
\* recorded.
C2_VideoWindowBound ==
    after_evict.ran =>
        \/ Span(after_evict.buffer) <= max_time
        \/ Len(after_evict.indexes) = 0

\* C2 witness: a pass removed frames and stopped inside the window with a
\* keyframe boundary still recorded, so that the span test is what stopped it.
C2_Witness ==
    /\ after_evict.ran
    /\ after_evict.drained >= 1
    /\ Len(after_evict.indexes) > 0
    /\ Span(after_evict.buffer) < max_time
    /\ Span(after_evict.buffer) > 0

\* C3: after every audio ingestion the span of the audio buffer is at most
\* max_time.
C3_AudioWindowBound == Span(audio_buffer) <= max_time

\* C4: under a regular cadence the front frame is a keyframe after every push,
\* the buffered span is at most max_time plus one GOP, and the buffer length is
\* bounded by the number of frames that fit in that span.
C4_CadenceBounded ==
    /\ Len(video_buffer) > 0 => video_buffer[1].key
    /\ Span(video_buffer) <= max_time + Gop * cad_step
    /\ Len(video_buffer) <= (max_time + Gop * cad_step) \div cad_step + 1

\* C4 witness: a window several GOPs long has been filled and trimmed.
C4_Witness ==
    /\ after_evict.ran
    /\ after_evict.drained = Gop
    /\ Len(video_buffer) > Gop
    /\ Len(keyframe_indexes) >= 1
    /\ Span(video_buffer) > max_time - Gop * cad_step

\* C5: in every export, no audio packet's rebased pts exceeds the rebased pts
\* of the last video packet written.
C5_AudioClipped ==
    (ExportOk /\ Len(out.video) > 0) =>
        \A i \in 1..Len(out.audio) : out.audio[i].pts <= Last(out.video).pts

\* C6: the video frames an export writes are the buffered frames from the front
\* of the buffer up to and including the last recorded keyframe boundary, in
\* buffer order; that keyframe is written last and nothing later is written.
C6_ExportEndBoundary ==
    /\ ExportOk =>
        LET boundary == Last(snap.indexes)
        IN  /\ Written(out.video) = SubSeq(snap.video, 1, boundary + 1)
            /\ Last(out.video).key
            /\ Last(out.video).time = At(snap.video, boundary).time
            /\ \A i \in 1..Len(out.video) : out.video[i].time <= At(snap.video, boundary).time
            /\ \A i \in 1..(Len(out.video) - 1) : out.video[i].time < out.video[i + 1].time
    /\ (snap.ran /\ out.created /\ Len(snap.indexes) > 0) =>
        IsPrefix(Written(out.video), SubSeq(snap.video, 1, Last(snap.indexes) + 1))

\* C6 witness: an export wrote several frames and left out a frame buffered
\* after the last boundary.
C6_Witness ==
    /\ ExportOk
    /\ Len(out.video) >= 2
    /\ Len(out.video) < Len(snap.video)

C8_NoFileOnEmpty ==
    /\ (snap.ran /\ (Len(snap.video) = 0 \/ Len(snap.audio) = 0)) => ExportFailed
    /\ ExportFailed => ~out.created

\* C9: after a failed export both buffers and the keyframe indexes are what they
\* were before it, and a save trigger can still be handled.
C9_IdempotentRetry ==
    ExportFailed =>
        /\ video_buffer = snap.video
        /\ keyframe_indexes = snap.indexes
        /\ audio_buffer = snap.audio
        /\ ENABLED OnSaveTrigger

\* C10: after a failed export the event loop is still running.
C10_CaptureSurvives == ExportFailed => running

\* C11: a successful save leaves both buffers and the keyframe indexes empty and
\* both encoders freshly opened, and the first video frame buffered after it is
\* a keyframe with pts 0.
C11_CleanStateAfterExport ==
    [][ /\ ExportOk' =>
            /\ video_buffer' = <<>>
            /\ keyframe_indexes' = <<>>
            /\ audio_buffer' = <<>>
            /\ enc_frames' = 0
        /\ (ExportOk /\ Len(video_buffer') > 0) =>
            /\ video_buffer'[1].key
            /\ video_buffer'[1].time = 0 ]_vars

Times(buf) == {buf[i].time : i \in 1..Len(buf)}

C13_AudioInputValidation ==
    [][ /\ (last_result # "InvalidData" /\ last_result' = "InvalidData") =>
            /\ Len(audio_q) > 0
            /\ Head(audio_q).n % NChannels # 0
            /\ UNCHANGED <<audio_buffer, video_buffer, keyframe_indexes>>
        /\ \/ last_result # "err" /\ last_result' = "err"
           \/ Len(audio_q) > 0 /\ audio_q' = Tail(audio_q) /\ running'
           => Head(audio_q).n % NChannels = 0
      ]_vars

\* C13 witness: a delivery was rejected with InvalidData while audio frames
\* were buffered.
C13_Witness ==
    /\ last_result = "InvalidData"
    /\ Len(audio_buffer) > 0

\* C14: after an ingestion call was rejected with InvalidData the event loop is
\* still running and selects its next input.
C14_CaptureContinues ==
    last_result = "InvalidData" => (running /\ pc = "select")

\* C15: every sample on the audio channel was forwarded by a callback that read
\* video_ready true, a callback that reads it false changes neither the channel
\* nor the audio buffer, and every delivery that reaches the audio buffer was
\* forwarded with the flag true.
C15_ReadinessHandshake ==
    [][ /\ \A i \in 1..Len(audio_q') : audio_q'[i].ready
        /\ Len(audio_q') > Len(audio_q) =>
            /\ delivery' = "forwarded"
            /\ video_ready \/ (audio_wait.some /\ audio_wait.val.ready)
        /\ (delivery # "dropped" /\ delivery' = "dropped") =>
            /\ ~video_ready
            /\ UNCHANGED <<audio_q, audio_buffer, audio_sent>>
        /\ (audio_buffer' # audio_buffer /\ audio_buffer' # <<>>) =>
            /\ Len(audio_q) > 0
            /\ Head(audio_q).ready
      ]_vars

\* C15 witness: audio was forwarded while video was live, the video stream then
\* left the live state, and the next delivery was dropped.
C15_Witness ==
    /\ delivery = "dropped"
    /\ ~video_ready
    /\ audio_sent > 0
    /\ Len(audio_buffer) > 0

\* C16: the save channel never holds more than one trigger, and of a burst of
\* triggers sent while a save is running exactly one is pending: the burst can
\* start at most one save after the running one.
C16_TriggerCoalescing ==
    /\ save_q \in {0, 1}
    /\ (pc = "save" /\ burst > 0) => save_q = 1

\* C16 witness: a save is running, a burst of triggers has been sent since it
\* began, and one trigger is pending.
C16_Witness ==
    /\ pc = "save"
    /\ burst = MaxBurst
    /\ save_q = 1

\* C17: when a save branch ends, with success or with failure, while raw samples
\* wait in the channels, the event loop is back at select! with the channels as
\* they were, so that the queued samples are received next.
C17_SaveCompletesAndResumes ==
    [][ (pc = "save" /\ pc' # "save" /\ (Len(video_q) > 0 \/ Len(audio_q) > 0)) =>
            /\ running'
            /\ pc' = "select"
            /\ video_q' = video_q
            /\ audio_q' = audio_q
      ]_vars

From(buf, n) == SubSeq(buf, n + 1, Len(buf))

\* C18: the eviction pass of a push removes a prefix of the buffer that ends
\* right before a recorded keyframe boundary, which becomes the front: the
\* earliest boundary, or a later one when the buffer cut at every earlier one
\* still spans max_time or more.  With no boundary recorded it removes nothing,
\* whatever the span; with one recorded and the span at max_time or more it
\* removes frames; it never empties the buffer.
C18_DeferrableEviction ==
    [][ after_evict'.ran =>
          LET d == after_evict'.drained
              kept == after_evict'.buffer
              kidx == keyframe_indexes
          IN  /\ kept = From(video_buffer, d)
              /\ Len(video_buffer) > 0 => Len(kept) > 0
              /\ d > 0 =>
                  /\ Span(video_buffer) >= max_time
                  /\ kept[1].key
                  /\ \E i \in 1..Len(kidx) :
                        /\ kidx[i] = d
                        /\ \A j \in 1..(i - 1) : Span(From(video_buffer, kidx[j])) >= max_time
                        /\ i = Len(kidx) \/ Span(kept) < max_time
              /\ kidx = <<>> => d = 0
              /\ (Span(video_buffer) >= max_time /\ kidx # <<>>) => d > 0
      ]_vars

\* C18 witness: a pass found the span at the window length with no boundary
\* recorded and removed nothing.
C18_Witness ==
    /\ after_evict.ran
    /\ after_evict.drained = 0
    /\ Len(after_evict.indexes) = 0
    /\ Len(after_evict.buffer) >= 2
    /\ Span(after_evict.buffer) >= max_time

IndexesConsistent(buf, kidx) ==
    /\ \A i \in 1..Len(kidx) :
          /\ 1 <= kidx[i]
          /\ kidx[i] < Len(buf)
          /\ At(buf, kidx[i]).key
    /\ \A i \in 1..(Len(kidx) - 1) : kidx[i] < kidx[i + 1]
    /\ \A p \in 2..Len(buf) : buf[p].key => \E i \in 1..Len(kidx) : kidx[i] = p - 1

RebasedAfter(kidx, d) ==
    LET later == SelectSeq(kidx, LAMBDA k : k > d)
    IN  [i \in 1..Len(later) |-> later[i] - d]

\* C19: after every step keyframe_indexes is strictly ascending, each entry i
\* has 1 <= i < video_buffer.len() and names a keyframe, and every keyframe
\* of the buffer but the front one is listed.  The same holds between the
\* drains and the push, where the entries are the earlier ones past the
\* drained prefix, each lowered by the number of frames drained: none goes
\* below 1 and only the boundaries that became the buffer start are gone.
C19_KeyframeIndexConsistency ==
    [][ /\ IndexesConsistent(video_buffer', keyframe_indexes')
        /\ after_evict'.ran =>
              /\ IndexesConsistent(after_evict'.buffer, after_evict'.indexes)
              /\ after_evict'.indexes = RebasedAfter(keyframe_indexes, after_evict'.drained)
      ]_vars

\* C19 witness: a drain left a later boundary in the list, rebased, and the
\* push recorded one more.
C19_Witness ==
    /\ after_evict.ran
    /\ after_evict.drained > 0
    /\ Len(after_evict.indexes) >= 1
    /\ Len(keyframe_indexes) > Len(after_evict.indexes)

\* C20: while the save branch runs it holds the video lock and the audio
\* lock, taken in that order, and neither ingestion branch can run; between
\* branches both locks are free, so a branch that takes one never waits; and
\* a save that holds the locks can always run to its end.
C20_SavePathLocking ==
    /\ pc = "save" =>
          /\ video_lock = "save"
          /\ audio_lock = "save"
          /\ lock_log = <<"video", "audio">>
          /\ ~ENABLED RecvVideoRaw
          /\ ~ENABLED RecvAudioRaw
          /\ running => ENABLED RunSave
    /\ pc = "select" => (video_lock = "free" /\ audio_lock = "free")
    /\ running => pc \in {"select", "save"}
    /\ (running /\ pc = "select" /\ save_q > 0) => ENABLED RecvSave

\* C20 witness: the save branch holds both locks while raw samples of both
\* streams wait in their channels.
C20_Witness ==
    /\ running
    /\ pc = "save"
    /\ video_lock = "save"
    /\ audio_lock = "save"
    /\ Len(video_q) > 0
    /\ Len(audio_q) > 0

\* C21: the audio capture thread is never parked in its send, waiting for the
\* event loop to take a sample from the audio channel.
C21_WorkersNeverBlock == ~audio_wait.some

\* C23: every frame of the audio buffer but the first has the pts of the frame
\* before it plus frame_size, whatever number of packets the encoder returned
\* for the frames submitted.
C23_AudioTimestampChain ==
    \A i \in 2..Len(audio_buffer) :
        audio_buffer[i].time = audio_buffer[i - 1].time + FrameSize

\* C24: the eviction loop of a push ends: every pass that does not break
\* removes at least one frame and exactly one entry of keyframe_indexes, and
\* the loop makes no more passes than keyframe_indexes had entries when it
\* started.
C24_EvictionTerminates ==
    [][ after_evict'.ran =>
          LET steps == after_evict'.steps
          IN  /\ \A i \in 1..Len(steps) :
                    /\ steps[i].frames >= 1
                    /\ steps[i].entries = 1
              /\ Len(steps) <= Len(keyframe_indexes)
              /\ Len(after_evict'.indexes) = Len(keyframe_indexes) - Len(steps)
      ]_vars

\* C24 witness: a loop that made two passes.
C24_Witness ==
    /\ after_evict.ran
    /\ Len(after_evict.steps) >= 2

NonDecreasing(buf) == \A i \in 2..Len(buf) : buf[i - 1].time <= buf[i].time

\* C22: in each buffer the time stamps never decrease from front to back,
\* when each producer stamps with the elapsed time since the start instant, 0
\* when it cannot be computed, and the channels deliver in the order sent.
C22_PerStreamOrder ==
    /\ NonDecreasing(video_buffer)
    /\ NonDecreasing(audio_buffer)

====
